---- MODULE Spec2Model ----
(***************************************************************************)
(* Model of the schema-migration subsystem:                                *)
(*   src/src/database/migrations/MigrationManager.ts  (MigrationManager)   *)
(*   src/unnamed/part_006                             (Migration base)     *)
(*   src/unnamed/part_007, versions/002_query_optimization.ts (the units)  *)
(*   src/scripts/migrate-database.ts                  (the migrate script) *)
(*   src/src/database/config.ts                       (the pool singleton) *)
(*   src/src/database/__tests__/config.test.ts        (DatabaseClient)     *)
(*   src/scripts/init-database.ts                     (initializeDatabase) *)
(* One step of the model is one await of the code: a database round trip   *)
(* or the resumption after it.  The database is the external collaborator: *)
(* every round trip may fail, and a failed round trip changes nothing.     *)
(***************************************************************************)
EXTENDS Integers, Sequences, FiniteSets, TLC

\* ------------------------------------------------------------------ bounds
NumUnits == 2       \* migration files in the versions directory
MaxLoads == 1       \* loadMigrations() calls per manager
MaxReloads == 3     \* loadMigrations() calls of a manager that only loads
NumStmts == 2       \* statements in a unit's up() list (down() has as many)
MaxCalls == 3       \* applyMigrations()/rollbackMigration() calls per manager
MaxSegs == 3        \* segments of a version string handed to compareVersions
MaxPools == 4       \* Pool objects a process creates

Procs == {1, 2}     \* processes; the second one runs only in the concurrent specification

\* ------------------------------------------------------ strings and versions
\* A string is the sequence of its characters.
Str1(a) == <<a>>
V3(a, b, c) == <<a, ".", b, ".", c>>

Digits == <<"0", "1", "2", "3", "4", "5", "6", "7", "8", "9">>
IsDigit(c) == \E i \in DOMAIN Digits : Digits[i] = c
DigitVal(c) == (CHOOSE i \in DOMAIN Digits : Digits[i] = c) - 1

\* String.prototype.split('.')
RECURSIVE SplitAcc(_, _, _)
SplitAcc(s, cur, acc) ==
    IF s = <<>> THEN Append(acc, cur)
    ELSE IF Head(s) = "." THEN SplitAcc(Tail(s), <<>>, Append(acc, cur))
    ELSE SplitAcc(Tail(s), Append(cur, Head(s)), acc)
Split(s) == SplitAcc(s, <<>>, <<>>)

\* Number(segment): "" is 0, a digit string is its decimal value, anything
\* else is NaN.
RECURSIVE Decimal(_, _)
Decimal(seg, acc) ==
    IF seg = <<>> THEN acc ELSE Decimal(Tail(seg), acc * 10 + DigitVal(Head(seg)))
ToNumber(seg) ==
    IF \A i \in DOMAIN seg : IsDigit(seg[i])
    THEN [nan |-> FALSE, val |-> Decimal(seg, 0)]
    ELSE [nan |-> TRUE, val |-> 0]

\* parts[i] || 0 : undefined, NaN and 0 all give 0
PartOrZero(parts, i) ==
    IF i > Len(parts) THEN 0
    ELSE IF ToNumber(parts[i]).nan THEN 0 ELSE ToNumber(parts[i]).val

Max(a, b) == IF a >= b THEN a ELSE b

RECURSIVE CompareFrom(_, _, _)
CompareFrom(pa, pb, i) ==
    IF i > Max(Len(pa), Len(pb)) THEN 0
    ELSE IF PartOrZero(pa, i) # PartOrZero(pb, i)
         THEN PartOrZero(pa, i) - PartOrZero(pb, i)
         ELSE CompareFrom(pa, pb, i + 1)

\* a mutated comparator: the operands of the subtraction swapped
CompareVersionsSwapped(a, b) == CompareFrom(Split(b), Split(a), 1)

compareVersions(a, b) == CompareFrom(Split(a), Split(b), 1)

\* ------------------------------------------------------------ the units
Units == 1..NumUnits

\* meta of the migration classes; units 1 and 2 are the shipped ones
MetaTable == <<
    [id |-> "001_strategy_management", name |-> "Strategy Management and Feedback",
     description |-> "strategy", version |-> V3("1", "0", "0"), dependencies |-> {}],
    [id |-> "002_query_optimization", name |-> "Query Optimization and Performance Tracking",
     description |-> "query", version |-> V3("1", "0", "1"),
     dependencies |-> {"001_strategy_management"}],
    [id |-> "003_c", name |-> "C", description |-> "c",
     version |-> <<"1", ".", "1", "0">>, dependencies |-> {}],
    [id |-> "004_d", name |-> "D", description |-> "d",
     version |-> <<"1", ".", "9">>, dependencies |-> {}] >>
meta(u) == MetaTable[u]

\* version strings a caller may pass to rollbackMigration
RollbackArgs ==
    {meta(u).version : u \in Units} \cup {Str1("0"), <<"1", ".", "0">>}

\* the statement lists handed to executeBatch: up() creates the unit's
\* objects (CREATE fails when the object exists), down() drops them in
\* reverse order (DROP ... IF EXISTS)
upQueries(u) == [i \in 1..NumStmts |-> [kind |-> "CREATE", obj |-> <<u, i>>]]
downQueries(u) == [i \in 1..NumStmts |-> [kind |-> "DROP", obj |-> <<u, NumStmts + 1 - i>>]]

\* ------------------------------------------------------------ pure parts
\* sha256(...).digest('hex'): a digest, modelled as injective on the content
Sha256(content) == <<"sha256", content>>

\* a mutated checksum: the dependencies are part of the digested content
ChecksumWithDependencies(m) ==
    Sha256(<<m.id, m.name, m.version, m.description, m.dependencies>>)

\* the checksum of a unit with meta m: JSON.stringify of an object holding the
\* four identity fields, in this order, then the digest
ChecksumOf(m) == Sha256(<<m.id, m.name, m.version, m.description>>)

\* generateChecksum(migration)
generateChecksum(u) == ChecksumOf(meta(u))

\* a mutated INSERT: the id and name parameters in each other's place
LedgerRowSwapped(u, checksum) ==
    [id |-> meta(u).name, name |-> meta(u).id, version |-> meta(u).version,
     checksum |-> checksum,
     metadata |-> [description |-> meta(u).description,
                   dependencies |-> meta(u).dependencies]]

\* the row recordMigration inserts
LedgerRow(u, checksum) ==
    [id |-> meta(u).id, name |-> meta(u).name, version |-> meta(u).version,
     checksum |-> checksum,
     metadata |-> [description |-> meta(u).description,
                   dependencies |-> meta(u).dependencies]]

\* compareVersions(a.meta.version, b.meta.version) for the units a, b,
\* tabulated once
Compared == [a \in Units, b \in Units |-> compareVersions(meta(a).version, meta(b).version)]

\* a mutated sort step: the comparator's answer is ignored
InsertFront(x, s) == <<x>> \o s

\* Array.prototype.sort with a comparator: stable, modelled as insertion sort
RECURSIVE InsertSorted(_, _)
InsertSorted(x, s) ==
    IF s = <<>> THEN <<x>>
    ELSE IF Compared[Head(s), x] <= 0
         THEN <<Head(s)>> \o InsertSorted(x, Tail(s))
         ELSE <<x>> \o s
RECURSIVE SortMigrations(_)
SortMigrations(s) ==
    IF s = <<>> THEN <<>>
    ELSE InsertSorted(s[Len(s)], SortMigrations(SubSeq(s, 1, Len(s) - 1)))

\* a mutated load: the pushed units are left in discovery order
LoadedUnsorted(old, order) == old \o order

\* loadMigrations, success path: push every discovered unit, then sort the
\* whole list
Loaded(old, order) == SortMigrations(old \o order)

\* a mutated find: versions matched by the comparator instead of ===
FindByComparator(list, version) ==
    IF \E i \in DOMAIN list : compareVersions(meta(list[i]).version, version) = 0
    THEN CHOOSE i \in DOMAIN list :
            /\ compareVersions(meta(list[i]).version, version) = 0
            /\ \A j \in 1..(i - 1) : compareVersions(meta(list[j]).version, version) # 0
    ELSE 0

\* this.migrations.find(m => m.meta.version === version): the position of
\* the first match, 0 when there is none
FindMigration(list, version) ==
    IF \E i \in DOMAIN list : meta(list[i]).version = version
    THEN CHOOSE i \in DOMAIN list :
            /\ meta(list[i]).version = version
            /\ \A j \in 1..(i - 1) : meta(list[j]).version # version
    ELSE 0

\* SELECT id FROM migrations WHERE id = $1
SelectById(rows, id) == SelectSeq(rows, LAMBDA row : row.id = id)

\* a mutated delete: DELETE FROM migrations without the WHERE clause
DeleteAll(rows, id) == <<>>

\* DELETE FROM migrations WHERE id = $1
DeleteById(rows, id) == SelectSeq(rows, LAMBDA row : row.id # id)

\* a mutated validate: an error while checking answers "can apply"
ValidateFailOpen(failed, rows) == failed \/ Len(rows) = 0

\* what validate() returns: false from the catch block, else
\* result.rows.length === 0
ValidateResult(failed, rows) == ~failed /\ Len(rows) = 0

\* the null of getCurrentVersion: `rows[0]?.version || null` turns a missing
\* row and an empty version string alike into null
Null == <<"null">>

\* a mutated getCurrentVersion: the version the SELECT would give without
\* ORDER BY applied_at DESC (the oldest row)
OldestVersionResult(failed, rows) ==
    IF failed \/ rows = <<>> \/ rows[1].version = <<>> THEN Null ELSE rows[1].version

\* getCurrentVersion: SELECT version ... ORDER BY applied_at DESC LIMIT 1;
\* null when the query threw or gave no row
CurrentVersionResult(failed, rows) ==
    IF failed \/ rows = <<>> \/ rows[Len(rows)].version = <<>> THEN Null
    ELSE rows[Len(rows)].version

\* one row of getMigrationHistory; applied_at is the row's rank in the ledger
HistoryRow(rows, i) ==
    [id |-> rows[i].id, name |-> rows[i].name, version |-> rows[i].version,
     applied_at |-> i, checksum |-> rows[i].checksum]

\* a mutated getMigrationHistory: a failed query is rethrown to the caller
HistoryThrows(failed, rows) ==
    IF failed THEN <<"throw">>
    ELSE [i \in 1..Len(rows) |-> HistoryRow(rows, Len(rows) + 1 - i)]

\* getMigrationHistory: SELECT ... ORDER BY applied_at DESC; [] when the
\* query threw
HistoryResult(failed, rows) ==
    IF failed THEN <<>>
    ELSE [i \in 1..Len(rows) |-> HistoryRow(rows, Len(rows) + 1 - i)]

\* ------------------------------------------------------------- the state
VARIABLES
    ledgerExists,   \* database: the migrations table exists
    ledger,         \* database: its rows, in applied_at order
    schema,         \* database: the committed schema objects
    mgr,            \* mgr[r]: the MigrationManager object of process r
    frame,          \* frame[r]: where the running call stands
    call,           \* call[r]: the running or most recent call
    prevCall,       \* prevCall[r]: the call before it
    obs,            \* obs[r]: what the running or most recent call has done
    lastOp,         \* lastOp[u]: the last completed operation on unit u
    probe,          \* the arguments and the result of a pure function under test
    conf            \* the config module, the DatabaseClient singleton, initializeDatabase

vars == <<ledgerExists, ledger, schema, mgr, frame, call, prevCall, obs, lastOp, probe, conf>>

NoCall == [op |-> "none", result |-> "none", err |-> "none", pos |-> 0, arg |-> <<>>,
           ret |-> <<>>]

IdleFrame == [pc |-> "idle", idx |-> 0, stmt |-> 0, txAdd |-> {}, txDel |-> {},
              caught |-> "none", vfail |-> FALSE, vret |-> FALSE]

\* lastUp: the list position of the latest up() of this call (0: none yet);
\* batchLog: what the latest executeBatch sent on its client, batch0: the
\* schema when it started, batchErr: how it ended; client: pool.connect() of
\* the latest executeBatch gave a client, released: how often release() was
\* called on it; order: the directory listing
NoObs == [lastUp |-> 0, batchLog |-> <<>>, batch0 |-> {}, batchErr |-> "none",
          client |-> FALSE, released |-> 0, order |-> <<>>]

\* new MigrationManager(pool): the list starts empty.  mode is who drives the
\* manager: "lib" a caller of the class (the test suite), "migrate" and
\* "rollback" the two branches of the migrate script; loads and calls count
\* the calls of the process
NewManager(mode) ==
    [migrations |-> <<>>, loads |-> 0, calls |-> 0, state |-> "Unloaded", mode |-> mode]

NoProbe == [fn |-> "none"]

\* config.ts, `let pool: Pool | null = null`: pool is the module variable
\* (0 is null, else the number of the Pool object), made counts the Pool
\* objects created, ends[p] the end() calls that resolved on pool p;
\* instance is the pool held by DatabaseClient.instance (0: no instance yet);
\* last is the latest call on the module or the client; init is where
\* initializeDatabase() stands, with the close() calls it has made
NoConfCall == [op |-> "none", ret |-> 0, err |-> "none"]
NoInit == [pc |-> "idle", closes |-> 0, err |-> "none"]
NoConf == [pool |-> 0, made |-> 0, ends |-> [p \in 1..MaxPools |-> 0], instance |-> 0,
           last |-> NoConfCall, init |-> NoInit]

\* a process that does not run
OffFrame == [IdleFrame EXCEPT !.pc = "off"]

Init ==
    /\ ledgerExists = FALSE
    /\ ledger = <<>>
    /\ schema = {}
    /\ mgr = [r \in Procs |-> NewManager("lib")]
    /\ frame = [r \in Procs |-> IF r = 1 THEN IdleFrame ELSE OffFrame]
    /\ call = [r \in Procs |-> NoCall]
    /\ prevCall = [r \in Procs |-> [op |-> "none", result |-> "none", pos |-> 0]]
    /\ obs = [r \in Procs |-> NoObs]
    /\ lastOp = [u \in Units |-> "none"]
    /\ probe = NoProbe
    /\ conf = NoConf

\* the unit the running call is working on
CurUnit(r) == mgr[r].migrations[frame[r].idx]

\* what the open transaction of r sees
Visible(r) == (schema \ frame[r].txDel) \cup frame[r].txAdd

\* what is remembered of a call once the next one starts
Summary(c) == [op |-> c.op, result |-> c.result, pos |-> c.pos]

\* the call before the one that starts now, c being the latest call and p
\* the one before it; the two reads are not remembered
Previous(c, p) == IF c.op \in {"version", "history"} THEN p ELSE Summary(c)


\* the orders in which readdir may list the files
Orders == {o \in [1..NumUnits -> Units] : \A i, j \in 1..NumUnits : o[i] = o[j] => i = j}

Done(c, res, err, pos) == [c EXCEPT !.result = res, !.err = err, !.pos = pos]

\* the for loop of applyMigrations moves on: the next unit's validate(),
\* or the call resolves after the last unit
LoopFrame(r) ==
    IF frame[r].idx < Len(mgr[r].migrations)
    THEN [IdleFrame EXCEPT !.pc = "validate_exists", !.idx = frame[r].idx + 1]
    ELSE IdleFrame
LoopCall(r) ==
    IF frame[r].idx < Len(mgr[r].migrations)
    THEN call[r]
    ELSE Done(call[r], "ok", "none", 0)

\* the running call rejects with err (the catch blocks of applyMigrations and
\* rollbackMigration log and rethrow)
Reject(r, err) ==
    /\ call' = [call EXCEPT ![r] = Done(call[r], "error", err, frame[r].idx)]
    /\ frame' = [frame EXCEPT ![r] = IdleFrame]

\* ------------------------------------------------------ MigrationManager
\* loadMigrations(): readdir lists the files in `order`; failAt = 0 is the
\* success path, failAt = k is an import or constructor that throws at the
\* k-th file (the units before it are already pushed, the sort is skipped)
loadMigrations(r, order, failAt) ==
    /\ frame[r].pc = "idle"
    /\ prevCall' = [prevCall EXCEPT ![r] = Previous(call[r], prevCall[r])]
    /\ IF failAt = 0
       THEN /\ mgr' = [mgr EXCEPT ![r].migrations = Loaded(@, order),
                                   ![r].loads = @ + 1,
                                   ![r].state = "Loaded"]
            /\ call' = [call EXCEPT ![r] = [NoCall EXCEPT !.op = "load", !.result = "ok"]]
       ELSE /\ mgr' = [mgr EXCEPT ![r].migrations = @ \o SubSeq(order, 1, failAt - 1),
                                   ![r].loads = @ + 1,
                                   ![r].state = "Failed"]
            /\ call' = [call EXCEPT ![r] = [NoCall EXCEPT !.op = "load", !.result = "error",
                                                          !.err = "discovery", !.pos = failAt]]
    /\ obs' = [obs EXCEPT ![r] = [NoObs EXCEPT !.order = order]]
    /\ UNCHANGED <<ledgerExists, ledger, schema, frame, lastOp, probe, conf>>

\* applyMigrations() is called; a caller of the class calls it only after
\* loadMigrations() has resolved (init-database.ts, the test suite), the
\* migrate script calls it where its own sequence says so
applyMigrations(r) ==
    /\ frame[r].pc = "idle"
    /\ mgr[r].mode = "lib" => mgr[r].state = "Loaded"
    /\ mgr[r].calls < MaxCalls
    /\ mgr' = [mgr EXCEPT ![r].calls = @ + 1]
    /\ prevCall' = [prevCall EXCEPT ![r] = Previous(call[r], prevCall[r])]
    /\ obs' = [obs EXCEPT ![r] = NoObs]
    /\ IF mgr[r].migrations = <<>>
       THEN /\ call' = [call EXCEPT ![r] = [NoCall EXCEPT !.op = "apply", !.result = "ok"]]
            /\ frame' = frame
       ELSE /\ call' = [call EXCEPT ![r] = [NoCall EXCEPT !.op = "apply", !.result = "running"]]
            /\ frame' = [frame EXCEPT ![r] = [IdleFrame EXCEPT !.pc = "validate_exists", !.idx = 1]]
    /\ UNCHANGED <<ledgerExists, ledger, schema, lastOp, probe, conf>>

\* a mutated rollbackMigration: a unit whose ledger row is absent is
\* reported as not found
rollbackAppliedOnly(r, version) ==
    /\ frame[r].pc = "idle"
    /\ mgr[r].mode = "lib" => mgr[r].state \in {"Unloaded", "Loaded"}
    /\ mgr[r].calls < MaxCalls
    /\ mgr' = [mgr EXCEPT ![r].calls = @ + 1]
    /\ prevCall' = [prevCall EXCEPT ![r] = Previous(call[r], prevCall[r])]
    /\ LET pos == FindMigration(mgr[r].migrations, version) IN
       IF pos = 0 \/ SelectById(ledger, meta(mgr[r].migrations[pos]).id) = <<>>
       THEN /\ call' = [call EXCEPT ![r] = [NoCall EXCEPT !.op = "rollback", !.arg = version,
                                               !.result = "error", !.err = "not found"]]
            /\ obs' = [obs EXCEPT ![r] = NoObs]
            /\ frame' = frame
       ELSE /\ call' = [call EXCEPT ![r] = [NoCall EXCEPT !.op = "rollback", !.arg = version,
                                               !.result = "running"]]
            /\ obs' = [obs EXCEPT ![r] = NoObs]
            /\ frame' = [frame EXCEPT ![r] = [IdleFrame EXCEPT !.pc = "connect", !.idx = pos]]
    /\ UNCHANGED <<ledgerExists, ledger, schema, lastOp, probe, conf>>

\* rollbackMigration(version) is called: find the unit, throw when there is
\* none, else call down(), which starts executeBatch
rollbackMigration(r, version) ==
    /\ frame[r].pc = "idle"
    /\ mgr[r].mode = "lib" => mgr[r].state \in {"Unloaded", "Loaded"}
    /\ mgr[r].calls < MaxCalls
    /\ mgr' = [mgr EXCEPT ![r].calls = @ + 1]
    /\ prevCall' = [prevCall EXCEPT ![r] = Previous(call[r], prevCall[r])]
    /\ LET pos == FindMigration(mgr[r].migrations, version) IN
       IF pos = 0
       THEN /\ call' = [call EXCEPT ![r] = [NoCall EXCEPT !.op = "rollback", !.arg = version,
                                               !.result = "error", !.err = "not found"]]
            /\ obs' = [obs EXCEPT ![r] = NoObs]
            /\ frame' = frame
       ELSE /\ call' = [call EXCEPT ![r] = [NoCall EXCEPT !.op = "rollback", !.arg = version,
                                               !.result = "running"]]
            /\ obs' = [obs EXCEPT ![r] = NoObs]
            /\ frame' = [frame EXCEPT ![r] = [IdleFrame EXCEPT !.pc = "connect", !.idx = pos]]
    /\ UNCHANGED <<ledgerExists, ledger, schema, lastOp, probe, conf>>

\* ------------------------------------------------------ Migration.validate
\* the information_schema query: does the migrations table exist?
ValidateExists(r, ok) ==
    /\ frame[r].pc = "validate_exists"
    /\ frame' = [frame EXCEPT ![r] =
          IF ~ok THEN [@ EXCEPT !.pc = "validate_return", !.vfail = TRUE,
                                !.vret = ValidateResult(TRUE, <<>>)]
          ELSE IF ledgerExists THEN [@ EXCEPT !.pc = "validate_select"]
          ELSE [@ EXCEPT !.pc = "validate_create"]]
    /\ UNCHANGED <<ledgerExists, ledger, schema, mgr, call, prevCall, obs, lastOp, probe, conf>>

\* CREATE TABLE migrations (...) and its indexes, one implicit transaction
ValidateCreate(r, ok) ==
    /\ frame[r].pc = "validate_create"
    /\ IF ok /\ ~ledgerExists
       THEN /\ ledgerExists' = TRUE
            /\ frame' = [frame EXCEPT ![r].pc = "validate_select"]
       ELSE /\ ledgerExists' = ledgerExists
            /\ frame' = [frame EXCEPT ![r] = [@ EXCEPT !.pc = "validate_return", !.vfail = TRUE,
                                                       !.vret = ValidateResult(TRUE, <<>>)]]
    /\ UNCHANGED <<ledger, schema, mgr, call, prevCall, obs, lastOp, probe, conf>>

\* a mutated validate(): it answers no for a unit another run is applying,
\* as it would under a migration lock
ValidateSelectLocked(r, ok) ==
    /\ frame[r].pc = "validate_select"
    /\ frame' = [frame EXCEPT ![r] =
          IF ok /\ ledgerExists
          THEN [@ EXCEPT !.pc = "validate_return",
                         !.vret = /\ ValidateResult(FALSE, SelectById(ledger, meta(CurUnit(r)).id))
                                  /\ \A o \in Procs \ {r} :
                                        ~(/\ frame[o].pc \in {"connect", "begin", "statement",
                                                              "commit", "rollback", "record"}
                                          /\ CurUnit(o) = CurUnit(r))]
          ELSE [@ EXCEPT !.pc = "validate_return", !.vfail = TRUE,
                         !.vret = ValidateResult(TRUE, <<>>)]]
    /\ UNCHANGED <<ledgerExists, ledger, schema, mgr, call, prevCall, obs, lastOp, probe, conf>>

\* SELECT id FROM migrations WHERE id = $1
ValidateSelect(r, ok) ==
    /\ frame[r].pc = "validate_select"
    /\ frame' = [frame EXCEPT ![r] =
          IF ok /\ ledgerExists
          THEN [@ EXCEPT !.pc = "validate_return",
                         !.vret = ValidateResult(FALSE, SelectById(ledger, meta(CurUnit(r)).id))]
          ELSE [@ EXCEPT !.pc = "validate_return", !.vfail = TRUE,
                         !.vret = ValidateResult(TRUE, <<>>)]]
    /\ UNCHANGED <<ledgerExists, ledger, schema, mgr, call, prevCall, obs, lastOp, probe, conf>>

\* applyMigrations resumes with canApply: up() is called (executeBatch
\* starts with pool.connect()), or the unit is skipped
ValidateReturn(r) ==
    /\ frame[r].pc = "validate_return"
    /\ IF frame[r].vret
       THEN /\ frame' = [frame EXCEPT ![r] = [IdleFrame EXCEPT !.pc = "connect", !.idx = frame[r].idx]]
            /\ obs' = [obs EXCEPT ![r].lastUp = frame[r].idx]
            /\ call' = call
       ELSE /\ frame' = [frame EXCEPT ![r] = LoopFrame(r)]
            /\ obs' = obs
            /\ call' = [call EXCEPT ![r] = LoopCall(r)]
    /\ UNCHANGED <<ledgerExists, ledger, schema, mgr, prevCall, lastOp, probe, conf>>

\* ------------------------------------------------- Migration.executeBatch
\* the statement list of the batch: up() under applyMigrations, down() under
\* rollbackMigration
Queries(r) ==
    IF call[r].op = "apply" THEN upQueries(CurUnit(r)) ELSE downQueries(CurUnit(r))

\* a mutated rollback: the work of the failed transaction stays
KeepWorking(committed, working) == working

\* the schema after ROLLBACK (or after the transaction is abandoned): the
\* committed one, the transaction's work is discarded
RolledBack(committed, working) == committed

\* a mutated catch block: ROLLBACK's own failure is swallowed
ThrownOriginal(caught, rollbackOk) == caught

\* what the catch block throws: `throw error` is reached only when the
\* awaited ROLLBACK resolved; when it rejects, its error propagates instead
Thrown(caught, rollbackOk) == IF rollbackOk THEN caught ELSE "ROLLBACK"

\* const client = await pool.connect()  (outside the try block)
BatchConnect(r, ok) ==
    /\ frame[r].pc = "connect"
    /\ obs' = [obs EXCEPT ![r] = [@ EXCEPT !.batchLog = <<>>,
                                           !.batch0 = schema,
                                           !.batchErr = IF ok THEN "none" ELSE "connect",
                                           !.client = ok,
                                           !.released = 0]]
    /\ IF ok
       THEN /\ frame' = [frame EXCEPT ![r].pc = "begin"]
            /\ UNCHANGED call
       ELSE Reject(r, "connect")
    /\ UNCHANGED <<ledgerExists, ledger, schema, mgr, prevCall, lastOp, probe, conf>>

\* await client.query('BEGIN')
BatchBegin(r, ok) ==
    /\ frame[r].pc = "begin"
    /\ obs' = [obs EXCEPT ![r].batchLog = Append(@, "BEGIN")]
    /\ frame' = [frame EXCEPT ![r] =
          IF ~ok THEN [@ EXCEPT !.pc = "rollback", !.caught = "BEGIN"]
          ELSE IF Len(Queries(r)) = 0 THEN [@ EXCEPT !.pc = "commit"]
          ELSE [@ EXCEPT !.pc = "statement", !.stmt = 1]]
    /\ UNCHANGED <<ledgerExists, ledger, schema, mgr, call, prevCall, lastOp, probe, conf>>

\* await client.query(query), for the next query of the list; the database
\* makes the statement wait while another open transaction holds its object
BatchStatement(r, ok) ==
    /\ frame[r].pc = "statement"
    /\ \A o \in Procs \ {r} :
          Queries(r)[frame[r].stmt].obj \notin frame[o].txAdd \cup frame[o].txDel
    /\ LET q == Queries(r)[frame[r].stmt]
           succeeds == ok /\ (q.kind = "CREATE" => q.obj \notin Visible(r))
       IN
       /\ obs' = [obs EXCEPT ![r].batchLog = Append(@, q)]
       /\ frame' = [frame EXCEPT ![r] =
             IF ~succeeds THEN [@ EXCEPT !.pc = "rollback", !.caught = "statement"]
             ELSE [@ EXCEPT !.pc = IF frame[r].stmt < Len(Queries(r)) THEN "statement" ELSE "commit",
                            !.stmt = frame[r].stmt + 1,
                            !.txAdd = IF q.kind = "CREATE" THEN @ \cup {q.obj} ELSE @ \ {q.obj},
                            !.txDel = IF q.kind = "DROP" THEN @ \cup {q.obj} ELSE @ \ {q.obj}]]
    /\ UNCHANGED <<ledgerExists, ledger, schema, mgr, call, prevCall, lastOp, probe, conf>>

\* await client.query('COMMIT'); on success finally releases the client,
\* up()/down() resolves and the caller goes on to the ledger write
BatchCommit(r, ok) ==
    /\ frame[r].pc = "commit"
    /\ IF ok
       THEN /\ schema' = Visible(r)
            /\ obs' = [obs EXCEPT ![r] = [@ EXCEPT !.batchLog = Append(@, "COMMIT"),
                                                   !.batchErr = "ok",
                                                   !.released = @ + 1]]
            /\ frame' = [frame EXCEPT ![r] =
                  [IdleFrame EXCEPT !.idx = frame[r].idx,
                                    !.pc = IF call[r].op = "apply" THEN "record" ELSE "remove"]]
       ELSE /\ schema' = schema
            /\ obs' = [obs EXCEPT ![r].batchLog = Append(@, "COMMIT")]
            /\ frame' = [frame EXCEPT ![r] = [@ EXCEPT !.pc = "rollback", !.caught = "COMMIT"]]
    /\ UNCHANGED <<ledgerExists, ledger, mgr, call, prevCall, lastOp, probe, conf>>

\* a mutated catch block: the error is swallowed, up()/down() resolves and
\* the caller goes on to the ledger write
BatchRollbackSwallows(r, ok) ==
    /\ frame[r].pc = "rollback"
    /\ schema' = RolledBack(schema, Visible(r))
    /\ obs' = [obs EXCEPT ![r] = [@ EXCEPT !.batchLog = Append(@, "ROLLBACK"),
                                           !.batchErr = Thrown(frame[r].caught, ok),
                                           !.released = @ + 1]]
    /\ frame' = [frame EXCEPT ![r] =
          [IdleFrame EXCEPT !.idx = frame[r].idx,
                            !.pc = IF call[r].op = "apply" THEN "record" ELSE "remove"]]
    /\ UNCHANGED <<ledgerExists, ledger, mgr, call, prevCall, lastOp, probe, conf>>

\* a mutated executeBatch: release() follows the ROLLBACK inside the catch
\* block instead of standing in a finally block
BatchRollbackLeaks(r, ok) ==
    /\ frame[r].pc = "rollback"
    /\ schema' = RolledBack(schema, Visible(r))
    /\ obs' = [obs EXCEPT ![r] = [@ EXCEPT !.batchLog = Append(@, "ROLLBACK"),
                                           !.batchErr = Thrown(frame[r].caught, ok),
                                           !.released = IF ok THEN @ + 1 ELSE @]]
    /\ Reject(r, Thrown(frame[r].caught, ok))
    /\ UNCHANGED <<ledgerExists, ledger, mgr, prevCall, lastOp, probe, conf>>

\* catch: await client.query('ROLLBACK'); throw error; finally release.
\* The error leaves up()/down() and the caller's catch block rethrows it.
BatchRollback(r, ok) ==
    /\ frame[r].pc = "rollback"
    /\ schema' = RolledBack(schema, Visible(r))
    /\ obs' = [obs EXCEPT ![r] = [@ EXCEPT !.batchLog = Append(@, "ROLLBACK"),
                                           !.batchErr = Thrown(frame[r].caught, ok),
                                           !.released = @ + 1]]
    /\ Reject(r, Thrown(frame[r].caught, ok))
    /\ UNCHANGED <<ledgerExists, ledger, mgr, prevCall, lastOp, probe, conf>>

\* ------------------------------------------------------- the ledger writes
\* a mutated recordMigration: the INSERT belongs to the unit's transaction, a
\* failed INSERT takes the unit's schema change back
RecordInTransaction(r, ok) ==
    /\ frame[r].pc = "record"
    /\ IF ok /\ ledgerExists /\ SelectById(ledger, meta(CurUnit(r)).id) = <<>>
       THEN /\ ledger' = Append(ledger, LedgerRow(CurUnit(r), generateChecksum(CurUnit(r))))
            /\ lastOp' = [lastOp EXCEPT ![CurUnit(r)] = "up"]
            /\ frame' = [frame EXCEPT ![r] = LoopFrame(r)]
            /\ call' = [call EXCEPT ![r] = LoopCall(r)]
            /\ schema' = schema
       ELSE /\ Reject(r, "insert")
            /\ schema' = schema \ {<<CurUnit(r), i>> : i \in 1..NumStmts}
            /\ UNCHANGED <<ledger, lastOp>>
    /\ UNCHANGED <<ledgerExists, mgr, prevCall, obs, probe, conf>>

\* a mutated recordMigration: the migrations table has no primary key
RecordNoPrimaryKey(r, ok) ==
    /\ frame[r].pc = "record"
    /\ IF ok /\ ledgerExists
       THEN /\ ledger' = Append(ledger, LedgerRow(CurUnit(r), generateChecksum(CurUnit(r))))
            /\ lastOp' = [lastOp EXCEPT ![CurUnit(r)] = "up"]
            /\ frame' = [frame EXCEPT ![r] = LoopFrame(r)]
            /\ call' = [call EXCEPT ![r] = LoopCall(r)]
       ELSE /\ Reject(r, "insert")
            /\ UNCHANGED <<ledger, lastOp>>
    /\ UNCHANGED <<ledgerExists, schema, mgr, prevCall, obs, probe, conf>>

\* recordMigration: INSERT INTO migrations; id is the primary key
recordMigration(r, ok) ==
    /\ frame[r].pc = "record"
    /\ IF ok /\ ledgerExists /\ SelectById(ledger, meta(CurUnit(r)).id) = <<>>
       THEN /\ ledger' = Append(ledger, LedgerRow(CurUnit(r), generateChecksum(CurUnit(r))))
            /\ lastOp' = [lastOp EXCEPT ![CurUnit(r)] = "up"]
            /\ frame' = [frame EXCEPT ![r] = LoopFrame(r)]
            /\ call' = [call EXCEPT ![r] = LoopCall(r)]
       ELSE /\ Reject(r, "insert")
            /\ UNCHANGED <<ledger, lastOp>>
    /\ UNCHANGED <<ledgerExists, schema, mgr, prevCall, obs, probe, conf>>

\* removeMigrationRecord: DELETE FROM migrations WHERE id = $1
removeMigrationRecord(r, ok) ==
    /\ frame[r].pc = "remove"
    /\ IF ok /\ ledgerExists
       THEN /\ ledger' = DeleteById(ledger, meta(CurUnit(r)).id)
            /\ lastOp' = [lastOp EXCEPT ![CurUnit(r)] = "down"]
            /\ frame' = [frame EXCEPT ![r] = IdleFrame]
            /\ call' = [call EXCEPT ![r] = Done(call[r], "ok", "none", 0)]
       ELSE /\ Reject(r, "delete")
            /\ UNCHANGED <<ledger, lastOp>>
    /\ UNCHANGED <<ledgerExists, schema, mgr, prevCall, obs, probe, conf>>

\* ------------------------------------------------------ the specification
\* ------------------------------------------------------- the read path
\* getCurrentVersion(): one pool.query; the catch block logs and returns null
getCurrentVersion(r, ok) ==
    /\ frame[r].pc = "idle"
    /\ prevCall' = [prevCall EXCEPT ![r] = Previous(call[r], prevCall[r])]
    /\ call' = [call EXCEPT ![r] =
                  [NoCall EXCEPT !.op = "version", !.result = "ok",
                                 !.err = IF ok /\ ledgerExists THEN "none" ELSE "query",
                                 !.ret = CurrentVersionResult(~(ok /\ ledgerExists), ledger)]]
    /\ obs' = [obs EXCEPT ![r] = NoObs]
    /\ UNCHANGED <<ledgerExists, ledger, schema, mgr, frame, lastOp, probe, conf>>

\* getMigrationHistory(): one pool.query; the catch block logs and returns []
getMigrationHistory(r, ok) ==
    /\ frame[r].pc = "idle"
    /\ prevCall' = [prevCall EXCEPT ![r] = Previous(call[r], prevCall[r])]
    /\ call' = [call EXCEPT ![r] =
                  [NoCall EXCEPT !.op = "history", !.result = "ok",
                                 !.err = IF ok /\ ledgerExists THEN "none" ELSE "query",
                                 !.ret = HistoryResult(~(ok /\ ledgerExists), ledger)]]
    /\ obs' = [obs EXCEPT ![r] = NoObs]
    /\ UNCHANGED <<ledgerExists, ledger, schema, mgr, frame, lastOp, probe, conf>>

Next ==
    \E r \in Procs :
        \/ \E order \in Orders, failAt \in 0..NumUnits :
              mgr[r].loads < MaxLoads /\ loadMigrations(r, order, failAt)
        \/ applyMigrations(r)
        \/ \E version \in RollbackArgs : rollbackMigration(r, version)
        \/ \E ok \in BOOLEAN : ValidateExists(r, ok)
        \/ \E ok \in BOOLEAN : ValidateCreate(r, ok)
        \/ \E ok \in BOOLEAN : ValidateSelect(r, ok)
        \/ ValidateReturn(r)
        \/ \E ok \in BOOLEAN : BatchConnect(r, ok)
        \/ \E ok \in BOOLEAN : BatchBegin(r, ok)
        \/ \E ok \in BOOLEAN : BatchStatement(r, ok)
        \/ \E ok \in BOOLEAN : BatchCommit(r, ok)
        \/ \E ok \in BOOLEAN : BatchRollback(r, ok)
        \/ \E ok \in BOOLEAN : recordMigration(r, ok)
        \/ \E ok \in BOOLEAN : removeMigrationRecord(r, ok)

Spec == Init /\ [][Next]_vars

\* ------------------------------------------------------ two concurrent runs
\* two processes start against the same database; each constructs its own
\* manager and calls loadMigrations(), then applyMigrations(), once
ConcInit ==
    /\ ledgerExists = FALSE
    /\ ledger = <<>>
    /\ schema = {}
    /\ mgr = [r \in Procs |-> NewManager("lib")]
    /\ frame = [r \in Procs |-> IdleFrame]
    /\ call = [r \in Procs |-> NoCall]
    /\ prevCall = [r \in Procs |-> Summary(NoCall)]
    /\ obs = [r \in Procs |-> NoObs]
    /\ lastOp = [u \in Units |-> "none"]
    /\ probe = NoProbe
    /\ conf = NoConf

ConcNext ==
    \E r \in Procs :
        \/ \E order \in Orders, failAt \in 0..NumUnits :
              call[r].op = "none" /\ loadMigrations(r, order, failAt)
        \/ call[r].op = "load" /\ applyMigrations(r)
        \/ \E u \in Units :
              /\ call[r].op = "apply" /\ call[r].result = "ok"
              /\ rollbackMigration(r, meta(u).version)
        \/ \E ok \in BOOLEAN : ValidateExists(r, ok)
        \/ \E ok \in BOOLEAN : ValidateCreate(r, ok)
        \/ \E ok \in BOOLEAN : ValidateSelect(r, ok)
        \/ ValidateReturn(r)
        \/ \E ok \in BOOLEAN : BatchConnect(r, ok)
        \/ \E ok \in BOOLEAN : BatchBegin(r, ok)
        \/ \E ok \in BOOLEAN : BatchStatement(r, ok)
        \/ \E ok \in BOOLEAN : BatchCommit(r, ok)
        \/ \E ok \in BOOLEAN : BatchRollback(r, ok)
        \/ \E ok \in BOOLEAN : recordMigration(r, ok)
        \/ \E ok \in BOOLEAN : removeMigrationRecord(r, ok)

SpecConc == ConcInit /\ [][ConcNext]_vars

\* ------------------------------------------------------ the migrate script
\* a mutated runMigrations: a rejected loadMigrations() is not caught, the run
\* goes on with the next statement
ScriptIgnoresLoadError(mode, c, p) ==
    CASE mode = "lib" -> "any"
      [] c.result = "running" -> "wait"
      [] mode = "rollback" ->
            IF c.op = "none" THEN "rollback" ELSE IF c.result = "ok" THEN "exit0" ELSE "exit1"
      [] c.op = "none" -> "load"
      [] c.op = "load" -> "version"
      [] c.op = "version" -> IF p.op = "load" THEN "apply" ELSE "history"
      [] c.op = "apply" -> IF c.result = "ok" THEN "version" ELSE "exit1"
      [] OTHER -> "exit0"

\* What a process does next, from who drives it (mode), its latest call c and
\* the call before it p.  The migrate script without a flag runs
\* runMigrations(): load, getCurrentVersion, apply, getCurrentVersion,
\* getMigrationHistory inside one try whose catch is process.exit(1); with
\* --rollback=<version> it calls rollbackMigration and exits 0 from then(),
\* 1 from catch().  A caller of the class ("lib") may call anything.
Script(mode, c, p) ==
    CASE mode = "lib" -> "any"
      [] c.result = "running" -> "wait"
      [] mode = "rollback" ->
            IF c.op = "none" THEN "rollback" ELSE IF c.result = "ok" THEN "exit0" ELSE "exit1"
      [] c.op = "none" -> "load"
      [] c.op = "load" -> IF c.result = "ok" THEN "version" ELSE "exit1"
      [] c.op = "version" -> IF p.op = "load" THEN "apply" ELSE "history"
      [] c.op = "apply" -> IF c.result = "ok" THEN "version" ELSE "exit1"
      [] OTHER -> "exit0"

ScriptAt(r) == Script(mgr[r].mode, call[r], prevCall[r])
ScriptAllows(r, op) == ScriptAt(r) \in {"any", op}

\* a process starts: the script in one of its two branches, or a caller of
\* the class; each constructs its own MigrationManager on the same database
StartProcess(r, mode) ==
    /\ frame[r].pc = "idle"
    /\ ScriptAt(r) \in {"any", "exit0", "exit1"}
    /\ mgr' = [mgr EXCEPT ![r] = [NewManager(mode) EXCEPT !.loads = mgr[r].loads,
                                                         !.calls = mgr[r].calls]]
    /\ call' = [call EXCEPT ![r] = NoCall]
    /\ prevCall' = [prevCall EXCEPT ![r] = Summary(NoCall)]
    /\ obs' = [obs EXCEPT ![r] = NoObs]
    /\ UNCHANGED <<ledgerExists, ledger, schema, frame, lastOp, probe, conf>>

\* `new MigrationManager(pool)` by a caller of the class
newManager(r) == StartProcess(r, "lib")

\* the migrate script without a flag: runMigrations() up to its try
runMigrations(r) ==
    /\ mgr[r].loads < MaxLoads
    /\ mgr[r].calls < MaxCalls
    /\ StartProcess(r, "migrate")

\* the migrate script with --rollback=<version>, up to its call of
\* rollbackMigration
rollbackBranch(r) ==
    /\ mgr[r].calls < MaxCalls
    /\ StartProcess(r, "rollback")

ScriptNext ==
    \E r \in Procs :
        \/ newManager(r)
        \/ runMigrations(r)
        \/ rollbackBranch(r)
        \/ \E order \in Orders, failAt \in 0..NumUnits :
              /\ mgr[r].loads < MaxLoads
              /\ ScriptAllows(r, "load")
              /\ loadMigrations(r, order, failAt)
        \/ ScriptAllows(r, "apply") /\ applyMigrations(r)
        \/ \E version \in RollbackArgs :
              ScriptAllows(r, "rollback") /\ rollbackMigration(r, version)
        \/ \E ok \in BOOLEAN : ScriptAllows(r, "version") /\ getCurrentVersion(r, ok)
        \/ \E ok \in BOOLEAN : ScriptAllows(r, "history") /\ getMigrationHistory(r, ok)
        \/ \E ok \in BOOLEAN : ValidateExists(r, ok)
        \/ \E ok \in BOOLEAN : ValidateCreate(r, ok)
        \/ \E ok \in BOOLEAN : ValidateSelect(r, ok)
        \/ ValidateReturn(r)
        \/ \E ok \in BOOLEAN : BatchConnect(r, ok)
        \/ \E ok \in BOOLEAN : BatchBegin(r, ok)
        \/ \E ok \in BOOLEAN : BatchStatement(r, ok)
        \/ \E ok \in BOOLEAN : BatchCommit(r, ok)
        \/ \E ok \in BOOLEAN : BatchRollback(r, ok)
        \/ \E ok \in BOOLEAN : recordMigration(r, ok)
        \/ \E ok \in BOOLEAN : removeMigrationRecord(r, ok)

SpecScript == Init /\ [][ScriptNext]_vars

\* ------------------------------------------------------ repeated loading
\* one manager whose loadMigrations() is called again and again (the
\* beforeEach of the test suite)
ReloadNext ==
    \E r \in Procs, order \in Orders, failAt \in 0..NumUnits :
        mgr[r].loads < MaxReloads /\ loadMigrations(r, order, failAt)

SpecReload == Init /\ [][ReloadNext]_vars

\* --------------------------------------------------- the pure functions
\* the decimal numeral of n
RECURSIVE ToStr(_), JoinDots(_)
ToStr(n) ==
    IF n < 10 THEN <<Digits[n + 1]>>
    ELSE ToStr(n \div 10) \o <<Digits[(n % 10) + 1]>>

\* the version string with the segments segs
JoinDots(segs) ==
    IF Len(segs) = 1 THEN ToStr(segs[1])
    ELSE JoinDots(SubSeq(segs, 1, Len(segs) - 1)) \o <<".">> \o ToStr(segs[Len(segs)])

\* the segment values and the segment lists of the version strings compared
SegValues == {0, 1, 2, 9, 10}
SegLists == UNION {[1..n -> SegValues] : n \in 1..MaxSegs}

\* the meta objects whose checksums are compared: the four identity fields
\* and the dependencies vary independently
MetaSet ==
    [id : {"001_strategy_management", "002_query_optimization"},
     name : {"Strategy Management and Feedback", "Query Optimization and Performance Tracking"},
     version : {V3("1", "0", "0"), V3("1", "0", "1")},
     description : {"strategy", "query"},
     dependencies : {{}, {"001_strategy_management"}}]

\* no process runs; one pure function is given its arguments
PureInit ==
    /\ ledgerExists = FALSE
    /\ ledger = <<>>
    /\ schema = {}
    /\ mgr = [r \in Procs |-> NewManager("lib")]
    /\ frame = [r \in Procs |-> OffFrame]
    /\ call = [r \in Procs |-> NoCall]
    /\ prevCall = [r \in Procs |-> Summary(NoCall)]
    /\ obs = [r \in Procs |-> NoObs]
    /\ lastOp = [u \in Units |-> "none"]
    /\ conf = NoConf
    /\ \/ \E sa, sb \in SegLists :
             probe = [fn |-> "compareVersions", segsA |-> sa, segsB |-> sb,
                      a |-> JoinDots(sa), b |-> JoinDots(sb), done |-> FALSE, out |-> 0]
       \/ \E ma, mb \in MetaSet :
             probe = [fn |-> "generateChecksum", a |-> ma, b |-> mb, done |-> FALSE,
                      out |-> <<>>]

\* compareVersions(a, b) is evaluated
CompareProbe ==
    /\ probe.fn = "compareVersions"
    /\ ~probe.done
    /\ probe' = [probe EXCEPT !.done = TRUE, !.out = compareVersions(probe.a, probe.b)]
    /\ UNCHANGED <<ledgerExists, ledger, schema, mgr, frame, call, prevCall, obs, lastOp, conf>>

\* generateChecksum is evaluated for two units
ChecksumProbe ==
    /\ probe.fn = "generateChecksum"
    /\ ~probe.done
    /\ probe' = [probe EXCEPT !.done = TRUE,
                              !.out = <<ChecksumOf(probe.a), ChecksumOf(probe.b)>>]
    /\ UNCHANGED <<ledgerExists, ledger, schema, mgr, frame, call, prevCall, obs, lastOp, conf>>

PureNext == CompareProbe \/ ChecksumProbe

SpecPure == PureInit /\ [][PureNext]_vars

\* ------------------------------------------- the pool and the DatabaseClient
\* a mutated getPool: a Pool is created on every call
PoolAlwaysNew(c) ==
    IF c.made < MaxPools THEN [c EXCEPT !.pool = c.made + 1, !.made = c.made + 1] ELSE c

\* getPool(): if (!pool) { pool = new Pool(poolConfig) }; return pool
PoolAfterGet(c) ==
    IF c.pool = 0 THEN [c EXCEPT !.pool = c.made + 1, !.made = c.made + 1] ELSE c

\* pool.end() resolves: the round trip went through and the pool was not
\* ended before (pg rejects a second end() on the same pool)
EndResolves(c, ok) == ok /\ c.ends[c.pool] = 0

\* closePool(): if (pool) { await pool.end(); pool = null }; a rejected end()
\* is logged and rethrown, the module variable is left as it is
PoolAfterClose(c, ok) ==
    IF c.pool # 0 /\ EndResolves(c, ok)
    THEN [c EXCEPT !.ends[c.pool] = @ + 1, !.pool = 0]
    ELSE c
CloseError(c, ok) == IF c.pool # 0 /\ ~EndResolves(c, ok) THEN "end" ELSE "none"

\* DatabaseClient.getInstance(): the constructor, this.pool = getPool(config),
\* runs only while the static instance is unset
InstanceAfterGet(c) ==
    IF c.instance = 0 THEN [PoolAfterGet(c) EXCEPT !.instance = PoolAfterGet(c).pool] ELSE c

\* a query on a pool: pg rejects it when the pool was ended
QueryError(c, p, ok) == IF c.ends[p] > 0 THEN "ended" ELSE IF ok THEN "none" ELSE "query"

\* a call of getPool()
getPool ==
    /\ conf.init.pc = "idle"
    /\ conf.pool # 0 \/ conf.made < MaxPools
    /\ conf' = [PoolAfterGet(conf) EXCEPT
                   !.last = [op |-> "getPool", ret |-> PoolAfterGet(conf).pool, err |-> "none"]]
    /\ UNCHANGED <<ledgerExists, ledger, schema, mgr, frame, call, prevCall, obs, lastOp, probe>>

\* a call of closePool(), awaited
closePool(ok) ==
    /\ conf.init.pc = "idle"
    /\ conf' = [PoolAfterClose(conf, ok) EXCEPT
                   !.last = [op |-> "closePool", ret |-> conf.pool, err |-> CloseError(conf, ok)]]
    /\ UNCHANGED <<ledgerExists, ledger, schema, mgr, frame, call, prevCall, obs, lastOp, probe>>

\* a call of DatabaseClient.getInstance()
getInstance ==
    /\ conf.init.pc = "idle"
    /\ conf.instance # 0 \/ conf.pool # 0 \/ conf.made < MaxPools
    /\ conf' = [InstanceAfterGet(conf) EXCEPT
                   !.last = [op |-> "getInstance", ret |-> InstanceAfterGet(conf).instance,
                             err |-> "none"]]
    /\ UNCHANGED <<ledgerExists, ledger, schema, mgr, frame, call, prevCall, obs, lastOp, probe>>

\* DatabaseClient.close(), awaited: await closePool(); the static instance
\* and its pool field are left as they are
close(ok) ==
    /\ conf.init.pc = "idle"
    /\ conf.instance # 0
    /\ conf' = [PoolAfterClose(conf, ok) EXCEPT
                   !.last = [op |-> "close", ret |-> conf.pool, err |-> CloseError(conf, ok)]]
    /\ UNCHANGED <<ledgerExists, ledger, schema, mgr, frame, call, prevCall, obs, lastOp, probe>>

\* an operation on the DatabaseClient instance (initializeSchema, and every
\* other method alike): await this.pool.query(...)
clientQuery(ok) ==
    /\ conf.init.pc = "idle"
    /\ conf.instance # 0
    /\ conf' = [conf EXCEPT
                   !.last = [op |-> "query", ret |-> conf.instance,
                             err |-> QueryError(conf, conf.instance, ok)]]
    /\ UNCHANGED <<ledgerExists, ledger, schema, mgr, frame, call, prevCall, obs, lastOp, probe>>

PoolNext ==
    \/ getPool
    \/ \E ok \in BOOLEAN : closePool(ok)
    \/ getInstance
    \/ \E ok \in BOOLEAN : close(ok)
    \/ \E ok \in BOOLEAN : clientQuery(ok)

SpecPool == Init /\ [][PoolNext]_vars

\* ------------------------------------------------- initializeDatabase()
\* the second try block of initializeDatabase(): what follows the latest
\* call c on the manager the block constructed
InitSeq(c) ==
    CASE c.result = "running" -> "wait"
      [] c.op = "none" -> "load"
      [] c.op = "load" -> IF c.result = "ok" THEN "apply" ELSE "throw"
      [] c.op = "apply" -> IF c.result = "ok" THEN "version" ELSE "throw"
      [] OTHER -> "seed"

InitAllows(op) == conf.init.pc = "migrations" /\ InitSeq(call[1]) = op

\* initializeDatabase() rejects with a DatabaseError of this code
InitRejected(c, code) == [c EXCEPT !.init.pc = "rejected", !.init.err = code]

\* initializeDatabase() is called
initializeDatabase ==
    /\ conf.init.pc \in {"idle", "resolved", "rejected"}
    /\ frame[1].pc = "idle"
    /\ conf.pool # 0 \/ conf.made < MaxPools
    /\ conf' = [conf EXCEPT !.init = [NoInit EXCEPT !.pc = "test"]]
    /\ UNCHANGED <<ledgerExists, ledger, schema, mgr, frame, call, prevCall, obs, lastOp, probe>>

\* await testConnection(): getPool(), connect, SELECT 1, release; false when
\* one of them threw, and then CONNECTION_ERROR is thrown.  On true the
\* function goes on to DatabaseClient.getInstance() and getPool()
InitTestConnection(ok) ==
    /\ conf.init.pc = "test"
    /\ conf' = IF ok
                THEN [InstanceAfterGet(PoolAfterGet(conf)) EXCEPT !.init.pc = "schema"]
                ELSE InitRejected(PoolAfterGet(conf), "CONNECTION_ERROR")
    /\ UNCHANGED <<ledgerExists, ledger, schema, mgr, frame, call, prevCall, obs, lastOp, probe>>

\* await dbClient.initializeSchema(): one query on the pool of the instance;
\* on success the second try block constructs its MigrationManager
InitSchema(ok) ==
    /\ conf.init.pc = "schema"
    /\ IF QueryError(conf, conf.instance, ok) = "none"
       THEN /\ conf' = [conf EXCEPT !.init.pc = "migrations"]
            /\ mgr' = [mgr EXCEPT ![1] = NewManager("init")]
            /\ call' = [call EXCEPT ![1] = NoCall]
            /\ prevCall' = [prevCall EXCEPT ![1] = Summary(NoCall)]
            /\ obs' = [obs EXCEPT ![1] = NoObs]
       ELSE /\ conf' = InitRejected(conf, "SCHEMA_ERROR")
            /\ UNCHANGED <<mgr, call, prevCall, obs>>
    /\ UNCHANGED <<ledgerExists, ledger, schema, frame, lastOp, probe>>

\* the catch of the second try block: loadMigrations() or applyMigrations()
\* rejected, MIGRATION_ERROR is thrown
InitMigrationFailed ==
    /\ InitAllows("throw")
    /\ conf' = InitRejected(conf, "MIGRATION_ERROR")
    /\ UNCHANGED <<ledgerExists, ledger, schema, mgr, frame, call, prevCall, obs, lastOp, probe>>

\* await pool.query(INSERT INTO analysis_strategies ... ON CONFLICT DO
\* NOTHING): a table of the base schema
InitSeedStrategies(ok) ==
    /\ InitAllows("seed")
    /\ conf' = IF ok THEN [conf EXCEPT !.init.pc = "thresholds"]
                ELSE InitRejected(conf, "INIT_ERROR")
    /\ UNCHANGED <<ledgerExists, ledger, schema, mgr, frame, call, prevCall, obs, lastOp, probe>>

\* await pool.query(INSERT INTO performance_thresholds ... ON CONFLICT DO
\* NOTHING): a table that up() of 002_query_optimization creates
InitSeedThresholds(ok) ==
    /\ conf.init.pc = "thresholds"
    /\ conf' = IF ok /\ \A i \in 1..NumStmts : <<2, i>> \in schema
                THEN [conf EXCEPT !.init.pc = "close"]
                ELSE InitRejected(conf, "INIT_ERROR")
    /\ UNCHANGED <<ledgerExists, ledger, schema, mgr, frame, call, prevCall, obs, lastOp, probe>>

\* await dbClient.close(), the last statement of the outer try block
InitClose(ok) ==
    /\ conf.init.pc = "close"
    /\ conf' = [PoolAfterClose(conf, ok) EXCEPT
                   !.init = [pc |-> IF CloseError(conf, ok) = "none" THEN "resolved" ELSE "rejected",
                             closes |-> conf.init.closes + 1,
                             err |-> IF CloseError(conf, ok) = "none" THEN "none" ELSE "INIT_ERROR"]]
    /\ UNCHANGED <<ledgerExists, ledger, schema, mgr, frame, call, prevCall, obs, lastOp, probe>>

InitNext ==
    \/ initializeDatabase
    \/ \E ok \in BOOLEAN : InitTestConnection(ok)
    \/ \E ok \in BOOLEAN : InitSchema(ok)
    \/ \E order \in Orders, failAt \in 0..NumUnits :
          InitAllows("load") /\ loadMigrations(1, order, failAt)
    \/ InitAllows("apply") /\ applyMigrations(1)
    \/ \E ok \in BOOLEAN : InitAllows("version") /\ getCurrentVersion(1, ok)
    \/ InitMigrationFailed
    \/ \E ok \in BOOLEAN : InitSeedStrategies(ok)
    \/ \E ok \in BOOLEAN : InitSeedThresholds(ok)
    \/ \E ok \in BOOLEAN : InitClose(ok)
    \/ \E ok \in BOOLEAN : ValidateExists(1, ok)
    \/ \E ok \in BOOLEAN : ValidateCreate(1, ok)
    \/ \E ok \in BOOLEAN : ValidateSelect(1, ok)
    \/ ValidateReturn(1)
    \/ \E ok \in BOOLEAN : BatchConnect(1, ok)
    \/ \E ok \in BOOLEAN : BatchBegin(1, ok)
    \/ \E ok \in BOOLEAN : BatchStatement(1, ok)
    \/ \E ok \in BOOLEAN : BatchCommit(1, ok)
    \/ \E ok \in BOOLEAN : BatchRollback(1, ok)
    \/ \E ok \in BOOLEAN : recordMigration(1, ok)

SpecInit == Init /\ [][InitNext]_vars

\* ================================================================ claims
\* helpers of the claims
VersionAt(r, p) == meta(mgr[r].migrations[p]).version
HasRow(rows, u) == \E i \in DOMAIN rows : rows[i].id = meta(u).id
RowCount(rows, u) == Cardinality({i \in DOMAIN rows : rows[i].id = meta(u).id})
IsPrefix(s, t) == Len(s) <= Len(t) /\ SubSeq(t, 1, Len(s)) = s
\* this step calls up() of the unit at frame[r].idx
UpInvoked(r) == frame[r].pc = "validate_return" /\ frame'[r].pc = "connect"
\* this step starts a call on manager r
CallStarts(r) == frame[r].pc = "idle" /\ mgr'[r].calls = mgr[r].calls + 1
BatchErrors == {"connect", "BEGIN", "statement", "COMMIT", "ROLLBACK"}

\* C1: within one applyMigrations() call the units are processed one at a
\* time in ascending version order: every up() is for a later list position
\* and a version not below that of the up() before it in the same call, and
\* validate() of the next unit starts only when the current unit is done
\* (its validate() returned false, or its up() committed and its
\* recordMigration() inserted the row).
C1_OneAtATimeAscending ==
    [][\A r \in Procs :
        /\ (UpInvoked(r) /\ obs[r].lastUp # 0) =>
              /\ obs[r].lastUp < frame[r].idx
              /\ compareVersions(VersionAt(r, obs[r].lastUp), VersionAt(r, frame[r].idx)) <= 0
        /\ (frame'[r].pc = "validate_exists" /\ ~CallStarts(r)) =>
              /\ frame'[r].idx = frame[r].idx + 1
              /\ \/ frame[r].pc = "validate_return" /\ ~frame[r].vret
                 \/ /\ frame[r].pc = "record"
                    /\ obs[r].batchErr = "ok"
                    /\ obs[r].lastUp = frame[r].idx
                    /\ HasRow(ledger', CurUnit(r))
        /\ (frame'[r].pc = "validate_exists" /\ CallStarts(r)) => frame'[r].idx = 1
      ]_vars

\* C1 witness: one call has applied every unit of a two-unit list, in order
C1_Witness ==
    \E r \in Procs :
        /\ call[r].op = "apply" /\ call[r].result = "ok"
        /\ prevCall[r].op = "load"
        /\ Len(mgr[r].migrations) >= 2
        /\ obs[r].lastUp = Len(mgr[r].migrations)
        /\ Len(ledger) = Len(mgr[r].migrations)
        /\ \A i \in DOMAIN ledger : ledger[i].id = meta(mgr[r].migrations[i]).id

\* C2: after loadMigrations() completes, whatever the directory order, the
\* unit list holds every discovered unit and is non-decreasing under the
\* dotted-version comparator.
C2_LoadedSorted ==
    \A r \in Procs :
        (call[r].op = "load" /\ call[r].result = "ok") =>
            /\ {mgr[r].migrations[i] : i \in DOMAIN mgr[r].migrations} = Units
            /\ \A i, j \in DOMAIN mgr[r].migrations :
                  i < j => compareVersions(VersionAt(r, i), VersionAt(r, j)) <= 0

\* C2 witness: the directory listed 1.0.1 before 1.0.0 and the list is
\* 1.0.0, 1.0.1
C2_Witness ==
    \E r \in Procs :
        /\ call[r].op = "load" /\ call[r].result = "ok"
        /\ Len(obs[r].order) >= 2
        /\ meta(obs[r].order[1]).version = V3("1", "0", "1")
        /\ meta(obs[r].order[2]).version = V3("1", "0", "0")
        /\ VersionAt(r, 1) = V3("1", "0", "0")
        /\ VersionAt(r, 2) = V3("1", "0", "1")

\* C3: when the call before was an applyMigrations() that resolved, an
\* applyMigrations() call invokes no up(), no recordMigration() and leaves
\* the ledger as it was.
C3_IdempotentReapply ==
    [][\A r \in Procs :
        (/\ call'[r].op = "apply"
         /\ prevCall'[r].op = "apply"
         /\ prevCall'[r].result = "ok") =>
            /\ ledger' = ledger
            /\ ~UpInvoked(r)
            /\ frame'[r].pc # "record"
      ]_vars

\* this step is the failure of up() of the unit at frame[r].idx:
\* executeBatch throws (pool.connect() rejected, or the catch block ran)
UpFails(r) ==
    /\ call[r].op = "apply"
    /\ frame[r].pc \in {"connect", "rollback"}
    /\ call'[r].result = "error"

\* C4: when up() of unit N fails during applyMigrations(), the schema is
\* what it was before that up() (the transaction is rolled back), no ledger
\* row is written for N, the call ends there (nothing is invoked for a later
\* unit) and rejects with the error up() threw; and no step of an
\* applyMigrations() call removes or changes a ledger row, so the rows of the
\* units applied before N remain.
C4_UpFailureHalts ==
    [][\A r \in Procs :
        /\ UpFails(r) =>
              /\ schema' = obs'[r].batch0
              /\ schema' = schema
              /\ ledger' = ledger
              /\ ~HasRow(ledger', CurUnit(r))
              /\ frame'[r].pc = "idle"
              /\ call'[r].pos = frame[r].idx
              /\ obs'[r].lastUp = frame[r].idx
              /\ call'[r].err \in BatchErrors
              /\ call'[r].err = obs'[r].batchErr
        /\ call'[r].op = "apply" => IsPrefix(ledger, ledger')
      ]_vars

\* C4 witness: the first unit was applied and recorded, up() of the second
\* failed at its second statement after the first had run, and the call
\* rejected with one ledger row
C4_Witness ==
    \E r \in Procs :
        /\ call[r].op = "apply" /\ call[r].result = "error"
        /\ call[r].err = "statement" /\ call[r].pos = 2
        /\ prevCall[r].op = "load"
        /\ Len(ledger) = 1 /\ ledger[1].id = meta(mgr[r].migrations[1]).id
        /\ NumStmts >= 2
        /\ obs[r].batchLog =
              <<"BEGIN">> \o SubSeq(upQueries(mgr[r].migrations[2]), 1, 2) \o <<"ROLLBACK">>

\* C5: after an applyMigrations() call that failed at unit N with the units
\* before N recorded, the next applyMigrations() call invokes up() for no
\* unit before N, its first up() is for N, and if it resolves every unit has
\* exactly one ledger row.
C5_ResumesAtFailedUnit ==
    [][\A r \in Procs :
        (/\ call'[r].op = "apply"
         /\ prevCall'[r].op = "apply"
         /\ prevCall'[r].result = "error"
         /\ \A p \in 1..(prevCall'[r].pos - 1) : HasRow(ledger, mgr[r].migrations[p])) =>
            /\ UpInvoked(r) => frame[r].idx >= prevCall'[r].pos
            /\ (UpInvoked(r) /\ obs[r].lastUp = 0) => frame[r].idx = prevCall'[r].pos
            /\ call'[r].result = "ok" =>
                  \A p \in DOMAIN mgr[r].migrations :
                      RowCount(ledger', mgr[r].migrations[p]) = 1
      ]_vars

C7_AtomicBatch ==
    [][\A r \in Procs :
        /\ frame[r].pc = "begin" => obs'[r].batchLog = <<"BEGIN">>
        /\ frame[r].pc = "statement" =>
              obs'[r].batchLog = <<"BEGIN">> \o SubSeq(Queries(r), 1, frame[r].stmt)
        /\ frame[r].pc = "commit" =>
              /\ obs'[r].batchLog = <<"BEGIN">> \o Queries(r) \o <<"COMMIT">>
              /\ schema = obs[r].batch0
        /\ (frame[r].pc \in {"begin", "statement", "commit"} /\ frame'[r].pc = "rollback") =>
              schema' = obs[r].batch0
        /\ frame[r].pc = "rollback" =>
              /\ obs'[r].batchLog = obs[r].batchLog \o <<"ROLLBACK">>
              /\ schema' = obs[r].batch0
              /\ call'[r].result = "error"
              /\ call'[r].err = frame[r].caught
      ]_vars

\* C8: validate() never throws; it returns false whenever one of its queries
\* failed; when all succeeded the ledger table exists and it returns true
\* exactly when the ledger has no row with the unit's id.
C8_ValidateFailsClosed ==
    \A r \in Procs :
        /\ frame[r].pc \in {"validate_exists", "validate_create", "validate_select",
                            "validate_return"} =>
              call[r].op = "apply" /\ call[r].result = "running"
        /\ frame[r].pc = "validate_return" =>
              /\ frame[r].vfail => ~frame[r].vret
              /\ ~frame[r].vfail =>
                    /\ ledgerExists
                    /\ frame[r].vret <=> ~HasRow(ledger, CurUnit(r))

\* C8 witness: the CREATE TABLE of validate() failed and validate() returned
\* false, although the unit has no ledger row
C8_Witness ==
    \E r \in Procs :
        /\ frame[r].pc = "validate_return"
        /\ frame[r].vfail /\ ~frame[r].vret
        /\ ~ledgerExists
        /\ call[r].result = "running"

C10_RollbackSymmetry ==
    [][\A r \in Procs :
        call'[r].op = "rollback" =>
            /\ IF frame[r].pc = "remove" /\ call'[r].result = "ok" /\ HasRow(ledger, CurUnit(r))
               THEN \E i \in DOMAIN ledger :
                       /\ ledger[i].id = meta(CurUnit(r)).id
                       /\ ledger' = SubSeq(ledger, 1, i - 1) \o SubSeq(ledger, i + 1, Len(ledger))
               ELSE ledger' = ledger
            /\ frame'[r].pc # "idle" => meta(mgr[r].migrations[frame'[r].idx]).version = call'[r].arg
            /\ frame[r].pc = "statement" =>
                  LET q == obs'[r].batchLog[Len(obs'[r].batchLog)] IN
                  /\ q.kind = "DROP"
                  /\ meta(q.obj[1]).version = call'[r].arg
      ]_vars

\* C10 witness: both units were recorded, rollbackMigration("1.0.0")
\* resolved, and the row of 002 is the one that is left
C10_Witness ==
    \E r \in Procs :
        /\ call[r].op = "rollback" /\ call[r].result = "ok"
        /\ call[r].arg = V3("1", "0", "0")
        /\ lastOp[1] = "down"
        /\ Len(ledger) = 1 /\ ledger[1].id = "002_query_optimization"
        /\ obs[r].batchLog = <<"BEGIN">> \o downQueries(1) \o <<"COMMIT">>

\* a step of r that is a call of getCurrentVersion or getMigrationHistory
ReadStep(r) ==
    /\ call'[r].op \in {"version", "history"}
    /\ <<call'[r], prevCall'[r]>> # <<call[r], prevCall[r]>>

\* C11: the migrate script run with --rollback=<version>, for the version of
\* a unit that is applied, rolls that unit back: when the run has ended, the
\* unit's ledger row is gone unless a database step of the rollback failed,
\* and the run that ended with the row gone exits 0.
C11_ScriptRollsBack ==
    \A r \in Procs :
        (/\ mgr[r].mode = "rollback"
         /\ call[r].op = "rollback"
         /\ call[r].result # "running") =>
            /\ (\E u \in Units : meta(u).version = call[r].arg /\ HasRow(ledger, u)) =>
                   call[r].err \in BatchErrors \cup {"delete"}
            /\ call[r].result = "ok" => ScriptAt(r) = "exit0"

C13_ReadPathBestEffort ==
    [][ \A r \in Procs :
          (ReadStep(r) /\ call'[r].err # "none") =>
             /\ call'[r].result = "ok"
             /\ call'[r].ret = IF call'[r].op = "version" THEN Null ELSE <<>>
             /\ frame'[r].pc = "idle"
             /\ UNCHANGED <<ledgerExists, ledger, schema, lastOp>>
             /\ mgr[r].mode = "migrate" => ScriptAt(r)' \in {"apply", "history", "exit0"}
      ]_vars

\* C13 witness: a migrate run ended with exit 0 although its last read, on a
\* ledger that holds rows, failed
C13_Witness ==
    \E r \in Procs :
        /\ mgr[r].mode = "migrate"
        /\ call[r].op = "history"
        /\ call[r].err = "query"
        /\ ledger # <<>>
        /\ ScriptAt(r) = "exit0"

\* C14: from an empty ledger, after loadMigrations() and an applyMigrations()
\* that resolved, a getCurrentVersion() whose query succeeds returns the
\* version of the highest-version unit of the list, and a
\* getMigrationHistory() whose query succeeds returns one entry per unit.
C14_EndToEnd ==
    \A r \in Procs :
        (/\ mgr[r].calls = 1
         /\ mgr[r].state = "Loaded"
         /\ prevCall[r].op = "apply"
         /\ prevCall[r].result = "ok"
         /\ call[r].op \in {"version", "history"}
         /\ call[r].err = "none") =>
            /\ call[r].op = "version" =>
                  \E p \in DOMAIN mgr[r].migrations :
                     /\ call[r].ret = VersionAt(r, p)
                     /\ \A q \in DOMAIN mgr[r].migrations :
                            Compared[mgr[r].migrations[q], mgr[r].migrations[p]] <= 0
            /\ call[r].op = "history" =>
                  /\ Len(call[r].ret) = Len(mgr[r].migrations)
                  /\ \A p \in DOMAIN mgr[r].migrations :
                         \E j \in DOMAIN call[r].ret :
                            call[r].ret[j].id = meta(mgr[r].migrations[p]).id

\* C15: a loadMigrations() that rejects has changed nothing in the database
\* and started no database step; in a migrate run it is the manager's only
\* call and the run ends there with exit 1.
C15_DiscoveryFailureFatal ==
    [][ \A r \in Procs :
          /\ (call'[r].op = "load" /\ call'[r].result = "error" /\ call'[r] # call[r]) =>
                /\ frame'[r].pc = "idle"
                /\ mgr'[r].state = "Failed"
                /\ UNCHANGED <<ledgerExists, ledger, schema, lastOp>>
          /\ (mgr'[r].mode = "migrate" /\ mgr'[r].state = "Failed") =>
                /\ call'[r].op = "load"
                /\ call'[r].result = "error"
                /\ prevCall'[r].op = "none"
                /\ frame'[r].pc = "idle"
                /\ ScriptAt(r)' = "exit1"
                /\ UNCHANGED <<ledgerExists, ledger, schema, lastOp>>
      ]_vars

\* C15 witness: a migrate run ended with exit 1 on a loadMigrations() that
\* threw at the second file, after the first unit was pushed
C15_Witness ==
    \E r \in Procs :
        /\ mgr[r].mode = "migrate"
        /\ mgr[r].state = "Failed"
        /\ call[r].pos = 2
        /\ Len(mgr[r].migrations) = 1
        /\ ScriptAt(r) = "exit1"

\* every object the unit's up() creates is in the committed schema
UnitCommitted(sch, u) == \A i \in 1..NumStmts : <<u, i>> \in sch

\* C16: when recordMigration() fails after up() has committed,
\* applyMigrations() rejects there, no later unit is attempted, and the
\* unit's schema change stays committed with no ledger row; a later
\* applyMigrations() whose validate() finds no row for such a unit invokes
\* up() for it again.
C16_RecordFailureLeavesGap ==
    [][ \A r \in Procs :
          /\ (frame[r].pc = "record" /\ call'[r].result = "error") =>
                /\ call'[r].op = "apply"
                /\ call'[r].err = "insert"
                /\ call'[r].pos = frame[r].idx
                /\ frame'[r].pc = "idle"
                /\ UnitCommitted(schema', CurUnit(r))
                /\ ~HasRow(ledger', CurUnit(r))
                /\ UNCHANGED <<ledgerExists, ledger, schema, lastOp>>
          /\ (/\ frame[r].pc = "validate_return"
              /\ ~frame[r].vfail
              /\ UnitCommitted(schema, CurUnit(r))
              /\ ~HasRow(ledger, CurUnit(r))) => UpInvoked(r)
      ]_vars

\* C16 witness: the call before failed at this unit, whose objects are
\* committed without a ledger row, and this applyMigrations() has invoked
\* up() for the unit again
C16_Witness ==
    \E r \in Procs :
        /\ prevCall[r].op = "apply"
        /\ prevCall[r].result = "error"
        /\ prevCall[r].pos = frame[r].idx
        /\ call[r].op = "apply"
        /\ frame[r].pc = "connect"
        /\ UnitCommitted(schema, CurUnit(r))
        /\ ~HasRow(ledger, CurUnit(r))

\* r is between the validate() that said yes and the end of up() for unit u
InUp(r, u) ==
    /\ call[r].op = "apply"
    /\ frame[r].pc \in {"connect", "begin", "statement", "commit", "rollback"}
    /\ CurUnit(r) = u

\* C17: nothing serialises two concurrent applyMigrations() runs: what
\* validate() answers for a unit is decided by the ledger row alone, also
\* while the other run is inside up() for the same unit; so both runs can
\* be inside up() for one unit (the witness).
C17_NoMutualExclusion ==
    [][ \A r \in Procs :
          (/\ frame[r].pc = "validate_select"
           /\ frame'[r].pc = "validate_return"
           /\ ~frame'[r].vfail) =>
              frame'[r].vret = ~HasRow(ledger, CurUnit(r))
      ]_vars

\* C17 witness: both runs found the first unit pending and both are inside
\* up() for it, each with its own open transaction
C17_Witness ==
    /\ InUp(1, 1)
    /\ InUp(2, 1)
    /\ frame[1].pc = "statement"
    /\ frame[2].pc = "statement"

\* the reference order on segment lists: missing segments are 0, the first
\* position with unequal segments decides, by the difference of the two
Seg(s, i) == IF i <= Len(s) THEN s[i] ELSE 0
RefCompare(s, t) ==
    LET D == {i \in 1..Max(Len(s), Len(t)) : Seg(s, i) # Seg(t, i)} IN
    IF D = {} THEN 0
    ELSE LET i == CHOOSE k \in D : \A j \in D : k <= j IN Seg(s, i) - Seg(t, i)

\* C18: compareVersions on two version strings gives what the reference
\* order gives on their segment lists (negative, zero or positive alike, and
\* the same difference); in particular 1.0 = 1.0.0, 2.0 > 1.9.9, 0.9 < 0.10.
C18_ComparatorIsReference ==
    (probe.fn = "compareVersions" /\ probe.done) =>
        /\ probe.out = RefCompare(probe.segsA, probe.segsB)
        /\ (probe.segsA = <<1, 0>> /\ probe.segsB = <<1, 0, 0>>) => probe.out = 0
        /\ (probe.segsA = <<2, 0>> /\ probe.segsB = <<1, 9, 9>>) => probe.out > 0
        /\ (probe.segsA = <<0, 9>> /\ probe.segsB = <<0, 10>>) => probe.out < 0

\* C18 witness: "0.9" was compared with "0.10" and came out lower
C18_Witness ==
    /\ probe.fn = "compareVersions"
    /\ probe.done
    /\ probe.a = <<"0", ".", "9">>
    /\ probe.b = <<"0", ".", "1", "0">>
    /\ probe.out < 0

\* C19: two units with the same id, name, version and description have the
\* same checksum whatever their dependencies are, and two units that differ
\* in the description only have different checksums.
C19_ChecksumOfIdentityFields ==
    (probe.fn = "generateChecksum" /\ probe.done) =>
        LET SameBut(f) == \A g \in {"id", "name", "version", "description"} \ {f} :
                             probe.a[g] = probe.b[g]
        IN
        /\ (SameBut("none") => probe.out[1] = probe.out[2])
        /\ (SameBut("description") /\ probe.a.description # probe.b.description) =>
               probe.out[1] # probe.out[2]

\* C19 witness: two units with equal identity fields and different
\* dependencies were given their checksums
C19_Witness ==
    /\ probe.fn = "generateChecksum"
    /\ probe.done
    /\ probe.a.dependencies # probe.b.dependencies
    /\ \A g \in {"id", "name", "version", "description"} : probe.a[g] = probe.b[g]
    /\ probe.out[1] = probe.out[2]

\* how often unit u is in the list
Occurrences(list, u) == Cardinality({p \in DOMAIN list : list[p] = u})

\* C20: after any number of loadMigrations() calls on one manager, the last
\* of which resolved, the list holds each discovered unit exactly once, in
\* ascending version order.
C20_LoadIsIdempotent ==
    \A r \in Procs :
        (call[r].op = "load" /\ call[r].result = "ok") =>
            /\ \A u \in Units : Occurrences(mgr[r].migrations, u) = 1
            /\ \A p, q \in DOMAIN mgr[r].migrations :
                   p < q => Compared[mgr[r].migrations[p], mgr[r].migrations[q]] <= 0

\* this step is the failure of down() of the unit at frame[r].idx:
\* executeBatch throws (pool.connect() rejected, or the catch block ran)
DownFails(r) ==
    /\ call[r].op = "rollback"
    /\ frame[r].pc \in {"connect", "rollback"}
    /\ obs'[r] # obs[r]
    /\ obs'[r].batchErr \in BatchErrors

\* C23: rollbackMigration(version) calls down() first and
\* removeMigrationRecord() only after down() succeeded: when down() fails
\* the call rejects with the error of down(), removeMigrationRecord() is not
\* invoked and the ledger is unchanged; removeMigrationRecord() is reached
\* only from the COMMIT of down(); and when the DELETE then fails the call
\* rejects with that error, the objects of the unit stay dropped and the
\* ledger row is still there.
C23_DownBeforeRemove ==
    [][\A r \in Procs :
        /\ DownFails(r) =>
              /\ call'[r].result = "error"
              /\ call'[r].err \in BatchErrors
              /\ frame'[r].pc = "idle"
              /\ ledger' = ledger
              /\ lastOp' = lastOp
        /\ (frame'[r].pc = "remove" /\ frame[r].pc # "remove") =>
              /\ frame[r].pc = "commit"
              /\ obs'[r].batchErr = "ok"
              /\ \A i \in 1..NumStmts : <<CurUnit(r), i>> \notin schema'
        /\ (frame[r].pc = "remove" /\ call'[r].result = "error") =>
              /\ call'[r].err = "delete"
              /\ ledger' = ledger
              /\ schema' = schema
              /\ \A i \in 1..NumStmts : <<CurUnit(r), i>> \notin schema'
      ]_vars

\* C23 witness: both units were recorded, down() of 001 committed, the
\* DELETE failed: the call rejected, the row of 001 is still in the ledger
\* and the objects of 001 are dropped
C23_Witness ==
    \E r \in Procs :
        /\ call[r].op = "rollback" /\ call[r].result = "error"
        /\ call[r].err = "delete"
        /\ call[r].arg = V3("1", "0", "0")
        /\ HasRow(ledger, 1) /\ Len(ledger) = 2
        /\ obs[r].batchErr = "ok"
        /\ \A i \in 1..NumStmts : <<1, i>> \notin schema

\* C24: rollbackMigration() does not consult the ledger: whenever the
\* version is that of a loaded unit the call invokes down() of that unit,
\* whether or not its ledger row is present, and 'not found' is thrown only
\* for a version no loaded unit has; so a second rollbackMigration(version)
\* after a successful one invokes down() again.
C24_RollbackIgnoresLedger ==
    [][\A r \in Procs :
        (CallStarts(r) /\ call'[r].op = "rollback") =>
            IF \E p \in DOMAIN mgr[r].migrations : VersionAt(r, p) = call'[r].arg
            THEN /\ call'[r].result = "running"
                 /\ frame'[r].pc = "connect"
                 /\ VersionAt(r, frame'[r].idx) = call'[r].arg
            ELSE /\ call'[r].result = "error"
                 /\ call'[r].err = "not found"
      ]_vars

\* C24 witness: rollbackMigration("1.0.0") resolved, the row of 001 is gone,
\* and a second rollbackMigration("1.0.0") sent the statements of down()
\* again and resolved
C24_Witness ==
    \E r \in Procs :
        /\ prevCall[r].op = "rollback" /\ prevCall[r].result = "ok"
        /\ call[r].op = "rollback" /\ call[r].result = "ok"
        /\ call[r].arg = V3("1", "0", "0")
        /\ ~HasRow(ledger, 1) /\ HasRow(ledger, 2)
        /\ obs[r].batchLog = <<"BEGIN">> \o downQueries(1) \o <<"COMMIT">>

\* C25: whenever applyMigrations() has resolved without error, every loaded
\* unit has a ledger row.
C25_ResolvedMeansRecorded ==
    \A r \in Procs :
        (call[r].op = "apply" /\ call[r].result = "ok") =>
            \A p \in DOMAIN mgr[r].migrations : HasRow(ledger, mgr[r].migrations[p])

\* every unit is either applied and recorded or neither: no call has left a
\* schema change without its row or a row without its schema change
NoGap == \A u \in Units : HasRow(ledger, u) <=> UnitCommitted(schema, u)

\* C26: a getCurrentVersion() that follows successfully completed
\* applyMigrations() and rollbackMigration() calls returns the greatest
\* version, by the comparator, among the units that have a ledger row.
C26_CurrentIsGreatest ==
    \A r \in Procs :
        (/\ call[r].op = "version" /\ call[r].err = "none"
         /\ prevCall[r].op \in {"apply", "rollback"} /\ prevCall[r].result = "ok"
         /\ NoGap
         /\ ledger # <<>>) =>
            /\ \E i \in DOMAIN ledger : call[r].ret = ledger[i].version
            /\ \A i \in DOMAIN ledger : compareVersions(ledger[i].version, call[r].ret) <= 0

\* C27: the ledger is closed under the declared dependencies: a unit with a
\* ledger row has a row for every id in its meta.dependencies.
C27_DependencyClosure ==
    \A u \in Units :
        HasRow(ledger, u) =>
            \A d \in meta(u).dependencies : \E i \in DOMAIN ledger : ledger[i].id = d

\* the steps of executeBatch that follow a successful pool.connect()
InBatch == {"begin", "statement", "commit", "rollback"}

\* C29: on every executeBatch in which pool.connect() succeeded the client
\* is released exactly once by the time executeBatch returns or throws,
\* whether it committed, a statement or the COMMIT failed and was rolled
\* back, or the ROLLBACK of the catch block failed too; it is not released
\* while the batch is running, and nothing is released when pool.connect()
\* rejected.
C29_ClientReleasedOnce ==
    \A r \in Procs :
        /\ frame[r].pc \in InBatch => obs[r].client /\ obs[r].released = 0
        /\ (frame[r].pc \notin InBatch \cup {"connect"} /\ obs[r].client) => obs[r].released = 1
        /\ ~obs[r].client => obs[r].released = 0

\* C29 witness: a statement failed, the ROLLBACK of the catch block failed
\* too, executeBatch threw the ROLLBACK error and the client is released
C29_Witness ==
    \E r \in Procs :
        /\ call[r].result = "error" /\ call[r].err = "ROLLBACK"
        /\ obs[r].batchErr = "ROLLBACK"
        /\ obs[r].client /\ obs[r].released = 1
        /\ frame[r].pc = "idle"

\* r has called up() for unit u in its applyMigrations() call, as the latest
\* up() of the call, and is done with the unit
AppliedLast(r, u) ==
    /\ call[r].op = "apply"
    /\ obs[r].lastUp > 0
    /\ mgr[r].migrations[obs[r].lastUp] = u
    /\ frame[r].pc \in InBatch \cup {"connect", "record"} => frame[r].idx # obs[r].lastUp

\* C28: under every interleaving of concurrent runs the ledger holds at most
\* one row per id; a recordMigration() for an id whose row is present fails,
\* leaves the ledger as it is and makes its applyMigrations() reject; and of
\* two applyMigrations() runs that both called up() for the same unit, at
\* least one has rejected at that unit.
C28_OneRowPerId ==
    [][/\ \A u \in Units : RowCount(ledger', u) <= 1
       /\ \A r \in Procs :
             (frame[r].pc = "record" /\ frame'[r] # frame[r] /\ HasRow(ledger, CurUnit(r))) =>
                 /\ ledger' = ledger
                 /\ call'[r].op = "apply" /\ call'[r].result = "error"
                 /\ call'[r].err = "insert"
       /\ \A u \in Units :
             (AppliedLast(1, u)' /\ AppliedLast(2, u)') =>
                 \E r \in Procs : /\ call'[r].result = "error"
                                  /\ call'[r].pos = obs'[r].lastUp
      ]_vars

\* C28 witness: run 1 found the first unit pending, run 2 applied and
\* recorded it and its down() has dropped the objects again, up() of run 1
\* committed, and the INSERT of run 1 met the row of run 2: run 1 rejected
\* and the ledger has the one row
C28_Witness ==
    /\ call[1].op = "apply" /\ call[1].result = "error" /\ call[1].err = "insert"
    /\ obs[1].batchErr = "ok"
    /\ call[2].op = "rollback"
    /\ RowCount(ledger, mgr[1].migrations[call[1].pos]) = 1

\* the pools that were created and not ended
OpenPools(c) == {p \in 1..c.made : c.ends[p] = 0}

\* C22: the pool is a singleton: after any sequence of calls at most one
\* pool that is not ended exists and no pool was ended twice; a getPool()
\* that follows a getPool() returns the same pool; a closePool() that
\* resolves with a pool present has ended that pool, once, and cleared the
\* module variable; a closePool() with no pool resolves and ends nothing.
C22_PoolSingleton ==
    [][/\ Cardinality(OpenPools(conf')) <= 1
       /\ \A p \in 1..MaxPools : conf'.ends[p] <= 1
       /\ (conf.last.op = "getPool" /\ conf'.last.op = "getPool") =>
              conf'.last.ret = conf.last.ret
       /\ conf'.last.op = "getPool" => conf'.last.ret = conf'.pool /\ conf'.pool # 0
       /\ (conf'.last.op = "closePool" /\ conf' # conf) =>
              IF conf.pool = 0
              THEN /\ conf'.last.err = "none"
                   /\ conf'.ends = conf.ends
                   /\ conf'.pool = 0
              ELSE conf'.last.err = "none" =>
                      /\ conf'.pool = 0
                      /\ conf'.ends = [conf.ends EXCEPT ![conf.pool] = 1]
                      /\ conf.ends[conf.pool] = 0
      ]_vars

\* C22 witness: getPool, closePool, getPool, closePool: two pools were
\* made, each was ended once, and no pool is left
C22_Witness ==
    /\ conf.last.op = "closePool" /\ conf.last.err = "none"
    /\ conf.last.ret = 2
    /\ conf.made = 2 /\ conf.pool = 0
    /\ conf.ends[1] = 1 /\ conf.ends[2] = 1
    /\ conf.instance = 0

\* C30: after any sequence of DatabaseClient.getInstance(),
\* DatabaseClient.close(), getPool() and closePool() calls the pool held by
\* the DatabaseClient singleton is the pool of the config module and has not
\* been ended, and no operation on the instance has met an ended pool.
C30_ClientPoolIsCurrent ==
    /\ conf.instance # 0 =>
          /\ conf.instance = conf.pool
          /\ conf.ends[conf.instance] = 0
    /\ conf.last.op = "query" => conf.last.err # "ended"

\* C21: initializeDatabase() closes the connections of the database client
\* on every exit path: when it has rejected because the schema
\* initialization or the migrations failed, DatabaseClient.close() has been
\* called.
C21_ClosedOnFailure ==
    (conf.init.pc = "rejected" /\ conf.init.err \in {"SCHEMA_ERROR", "MIGRATION_ERROR"}) =>
        conf.init.closes >= 1
====
